---- MODULE Spec2Model ----
(***************************************************************************)
(* Verification model of the bus-route aggregator:                         *)
(*   - PlatformManager.SearchAllPlatforms / RealPlatformManager            *)
(*     .SearchAllPlatforms  (fan-out over goroutines, two buffered         *)
(*     channels, count-matched receive loop)                    -> Spec    *)
(*   - HTTPClient.RateLimit / HTTPClient.MakeRequest            -> SpecRate *)
(*   - the sort.Slice ranking of searchHandler / routesHandler  -> SpecRank *)
(*   - RealRedBusService.convertRedBusRoute                  -> SpecConvert *)
(*   - SearchRoutes of the mock and real provider adapters   -> SpecAdapter *)
(*   - SearchAllPlatforms over the providers registered by                 *)
(*     NewPlatformManager / NewRealPlatformManager          -> SpecManagers *)
(*   - searchHandler / routesHandler                         -> SpecHandler *)
(*   - SearchAllPlatforms under fair scheduling                 -> SpecLive *)
(*   - two concurrent SearchAllPlatforms calls on one manager   -> SpecDual *)
(*   - searchBusesHandler of the Gin variant                    -> SpecGin  *)
(***************************************************************************)
EXTENDS Integers, Sequences, FiniteSets, Bags, TLC

VARIABLES
    \* ---- aggregation round (SearchAllPlatforms) ----
    manager,      \* which SearchAllPlatforms: "PlatformManager" | "RealPlatformManager"
    platforms,    \* pm.platforms, a sequence of provider names
    cpc,          \* position of the SearchAllPlatforms call
    k,            \* index of the dispatch loop (range pm.platforms)
    i,            \* index of the collection loop
    gpc,          \* position of each provider goroutine
    outcome,      \* what p.SearchRoutes(req) returned in each goroutine
    routesChan,   \* buffered channel of []Route
    errorsChan,   \* buffered channel of error
    routes,       \* local "routes" of the collection loop
    allRoutes,    \* accumulated result
    retErr,       \* the error returned by SearchAllPlatforms
    warnings,     \* bag of provider indexes named by a printed "Warning:" line
    received,     \* history: what each collection iteration received
    \* ---- HTTPClient ----
    rateLimit,    \* h.config.RateLimit
    now,          \* the clock
    lastCall,     \* h.lastCall
    rpc,          \* position of each caller inside MakeRequest
    wake,         \* the instant each sleeping caller may resume
    cur,          \* per caller: bookkeeping of the invocation in progress
    calls,        \* history: one record per RateLimit completion, in order
    raced,        \* history: some invocation started while another was running
    \* ---- ranking ----
    rankIn,       \* the list handed to sort.Slice
    rankOut,      \* the list after sort.Slice
    rankPc,
    toolchain,    \* which sort.Slice implementation the build links
    \* ---- convertRedBusRoute ----
    convIn,       \* (req.Date, rbRoute.DepartureTime, rbRoute.ArrivalTime)
    convOut,      \* the (Route, error) result
    convPc,
    \* ---- one provider adapter's SearchRoutes ----
    adIn,         \* the adapter, the SearchRequest and what the provider answers
    adOut,        \* the ([]Route, error) result
    adPc,
    \* ---- HTTP handlers (searchHandler, routesHandler) ----
    webIn,        \* the HTTP request
    webReq,       \* the SearchRequest handed to SearchAllPlatforms
    webOut,       \* the HTTP response
    webPc,
    \* ---- two SearchAllPlatforms calls on one PlatformManager ----
    rounds,       \* per call: its locals and the position of its goroutines
    chans         \* per call: the two channels it made

aggVars  == <<manager, platforms, cpc, k, i, gpc, outcome, routesChan, errorsChan,
              routes, allRoutes, retErr, warnings, received>>
rateVars == <<rateLimit, now, lastCall, rpc, wake, cur, calls, raced>>
rankVars == <<rankIn, rankOut, rankPc, toolchain>>
convVars == <<convIn, convOut, convPc>>
adVars   == <<adIn, adOut, adPc>>
webVars  == <<webIn, webReq, webOut, webPc>>
dualVars == <<rounds, chans>>
vars     == <<aggVars, rateVars, rankVars, convVars, adVars, webVars, dualVars>>

----------------------------------------------------------------------------
(* Bounds *)
MaxN      == 3      \* largest provider list explored
MaxOffers == 2      \* largest number of offers one provider returns
MaxR      == 2      \* largest configured rate interval (clock ticks)
MaxTime   == 5      \* the clock runs from 0 to MaxTime
MaxCalls  == 2      \* MakeRequest invocations per caller
MaxLen    == 7      \* longest list handed to the ranking
MaxAmount == 3      \* Price.Amount ranges over 1..MaxAmount
MaxDay    == 3      \* search dates are the days 0..MaxDay
MaxRecords == 1     \* records in a real provider's response within a round
MaxLiveN  == 2      \* largest provider list explored for termination
MaxDualN  == 2      \* largest provider list explored for two concurrent rounds

----------------------------------------------------------------------------
(* Small helpers *)
RECURSIVE SeqToBag(_)
SeqToBag(s) == IF s = << >> THEN EmptyBag
               ELSE SetToBag({Head(s)}) (+) SeqToBag(Tail(s))

RECURSIVE Flatten(_)
Flatten(ss) == IF ss = << >> THEN << >> ELSE Head(ss) \o Flatten(Tail(ss))

----------------------------------------------------------------------------
(* The aggregation round *)

Managers == {"PlatformManager", "RealPlatformManager"}

\* A provider is any PlatformService; it is identified by its position in
\* pm.platforms.
PlatformService == 1..MaxN

\* The offers a provider returns: c offers stamped with the provider.
ProviderRoutes(p, c) == [ x \in 1..c |-> [platform |-> p, id |-> x] ]

\* SearchRoutes(req) ([]Route, error): either (nil, err) or (routes, nil).
\* A nil slice and an empty slice are both the empty sequence: append treats
\* them alike.
\* "ret" tells that the call has returned.
NotReturned == [ret |-> FALSE, err |-> FALSE, routes |-> << >>]
SearchRoutes(p) ==
    { [ret |-> TRUE, err |-> TRUE, routes |-> << >>] } \cup
    { [ret |-> TRUE, err |-> FALSE, routes |-> ProviderRoutes(p, c)] : c \in 0..MaxOffers }

N == Len(platforms)

\* make(chan ..., len(pm.platforms))
ChanCapOne == IF N > 1 THEN 1 ELSE N
ChanCap == N

\* the bound of the collection loop: i < len(pm.platforms)
CollectEarly(n) == IF n > 1 THEN 1 ELSE n
CollectOneMore(n) == n + 1
CollectBound(n) == n

\* the collection loop's treatment of one (routes, err) pair
CollectKeepOnError(acc, r, e) == acc \o r
Collect(acc, r, e) == IF e # "nil" THEN acc ELSE acc \o r

\* what SearchAllPlatforms returns as its error
ReturnErrIfFailed(n, anyFailed) == IF anyFailed THEN "error" ELSE "nil"
ReturnErr(n, anyFailed) == "nil"

\* fmt.Printf("Warning: ...") for provider p, printed only for a non-nil error
LogWarningAlways(w, p, failed) == w (+) SetToBag({p})
LogWarning(w, p, failed) == IF failed THEN w (+) SetToBag({p}) ELSE w

AggIdle ==
    /\ manager = "none" /\ platforms = << >> /\ cpc = "off" /\ k = 0 /\ i = 0
    /\ gpc = << >> /\ outcome = << >> /\ routesChan = << >> /\ errorsChan = << >>
    /\ routes = << >> /\ allRoutes = << >> /\ retErr = "none"
    /\ warnings = EmptyBag /\ received = << >>

\* SearchAllPlatforms uses its providers through the PlatformService interface
\* only, so the manager holds any list of providers, the empty list of the
\* zero PlatformManager included.
RoundInit(m) ==
    /\ manager \in Managers
    /\ \E n \in 0..m : platforms = [ x \in 1..n |-> x ]
    /\ cpc = "idle" /\ k = 0 /\ i = 0
    /\ gpc = [ p \in 1..Len(platforms) |-> "unborn" ]
    /\ outcome = [ p \in 1..Len(platforms) |-> NotReturned ]
    /\ routesChan = << >> /\ errorsChan = << >>
    /\ routes = [from |-> 0, routes |-> << >>] /\ allRoutes = << >> /\ retErr = "none"
    /\ warnings = EmptyBag /\ received = << >>
AggInit == RoundInit(MaxN)

\* var allRoutes []Route; routesChan := make(...); errorsChan := make(...)
Begin ==
    /\ cpc = "idle"
    /\ cpc' = "dispatch" /\ k' = 1
    /\ allRoutes' = << >> /\ routesChan' = << >> /\ errorsChan' = << >>
    /\ UNCHANGED <<manager, platforms, i, gpc, outcome, routes, retErr,
                   warnings, received,
                   rateVars, rankVars, convVars, adVars, webVars, dualVars>>

\* for _, platform := range pm.platforms { go func(p PlatformService) {...}(platform) }
Dispatch ==
    /\ cpc = "dispatch" /\ k <= N
    /\ gpc' = [gpc EXCEPT ![k] = "call"]
    /\ k' = k + 1
    /\ UNCHANGED <<manager, platforms, cpc, i, outcome, routesChan, errorsChan,
                   routes, allRoutes, retErr, warnings, received,
                   rateVars, rankVars, convVars, adVars, webVars, dualVars>>

AnyFailed == \E p \in 1..N : outcome[p].ret /\ outcome[p].err

\* the dispatch loop is over: enter the collection loop, or return at once
\* when it has no iteration to run
DispatchDone ==
    /\ cpc = "dispatch" /\ k > N
    /\ i' = 0
    /\ IF 0 < CollectBound(N)
         THEN cpc' = "recvRoutes" /\ retErr' = retErr
         ELSE cpc' = "done" /\ retErr' = ReturnErr(N, AnyFailed)
    /\ UNCHANGED <<manager, platforms, k, gpc, outcome, routesChan, errorsChan,
                   routes, allRoutes, warnings, received,
                   rateVars, rankVars, convVars, adVars, webVars, dualVars>>

\* routes, err := p.SearchRoutes(req); RealPlatformManager prints the warning
\* here, in the goroutine
GoSearch(p) ==
    /\ gpc[p] = "call"
    /\ \E o \in SearchRoutes(p) :
         /\ outcome' = [outcome EXCEPT ![p] = o]
         /\ warnings' = IF manager = "RealPlatformManager"
                          THEN LogWarning(warnings, p, o.err) ELSE warnings
    /\ gpc' = [gpc EXCEPT ![p] = "send1"]
    /\ UNCHANGED <<manager, platforms, cpc, k, i, routesChan, errorsChan,
                   routes, allRoutes, retErr, received,
                   rateVars, rankVars, convVars, adVars, webVars, dualVars>>

ErrItem(p)    == [from |-> p, err |-> IF outcome[p].err THEN "error" ELSE "nil"]
RoutesItemShared(p) == [from |-> p, routes |-> IF outcome[p].err THEN << >> ELSE outcome[1].routes]
RoutesItem(p) == [from |-> p, routes |-> IF outcome[p].err THEN << >> ELSE outcome[p].routes]

\* first send of the goroutine: errorsChan <- err when SearchRoutes failed,
\* routesChan <- routes otherwise
GoSendFirst(p) ==
    /\ gpc[p] = "send1"
    /\ IF outcome[p].err
         THEN /\ Len(errorsChan) < ChanCap
              /\ errorsChan' = Append(errorsChan, ErrItem(p))
              /\ routesChan' = routesChan
         ELSE /\ Len(routesChan) < ChanCap
              /\ routesChan' = Append(routesChan, RoutesItem(p))
              /\ errorsChan' = errorsChan
    /\ gpc' = [gpc EXCEPT ![p] = "send2"]
    /\ UNCHANGED <<manager, platforms, cpc, k, i, outcome, routes, allRoutes,
                   retErr, warnings, received,
                   rateVars, rankVars, convVars, adVars, webVars, dualVars>>

\* second send of the goroutine: routesChan <- nil after an error,
\* errorsChan <- nil after a success
GoSendSecond(p) ==
    /\ gpc[p] = "send2"
    /\ IF outcome[p].err
         THEN /\ Len(routesChan) < ChanCap
              /\ routesChan' = Append(routesChan, RoutesItem(p))
              /\ errorsChan' = errorsChan
         ELSE /\ Len(errorsChan) < ChanCap
              /\ errorsChan' = Append(errorsChan, ErrItem(p))
              /\ routesChan' = routesChan
    /\ gpc' = [gpc EXCEPT ![p] = "done"]
    /\ UNCHANGED <<manager, platforms, cpc, k, i, outcome, routes, allRoutes,
                   retErr, warnings, received,
                   rateVars, rankVars, convVars, adVars, webVars, dualVars>>

\* routes := <-routesChan
RecvRoutes ==
    /\ cpc = "recvRoutes"
    /\ routesChan # << >>
    /\ routes' = Head(routesChan)
    /\ routesChan' = Tail(routesChan)
    /\ cpc' = "recvErr"
    /\ UNCHANGED <<manager, platforms, k, i, gpc, outcome, errorsChan, allRoutes,
                   retErr, warnings, received,
                   rateVars, rankVars, convVars, adVars, webVars, dualVars>>

\* err := <-errorsChan; if err != nil { (warning); continue };
\* if routes != nil { allRoutes = append(allRoutes, routes...) }; i++
RecvErr ==
    /\ cpc = "recvErr"
    /\ errorsChan # << >>
    /\ LET e == Head(errorsChan) IN
         /\ errorsChan' = Tail(errorsChan)
         /\ warnings' = IF manager = "PlatformManager"
                          THEN LogWarning(warnings, e.from, e.err # "nil") ELSE warnings
         /\ allRoutes' = Collect(allRoutes, routes.routes, e.err)
         /\ received' = Append(received, [routesFrom |-> routes.from, errFrom |-> e.from,
                                          err |-> e.err])
    /\ i' = i + 1
    /\ IF i + 1 < CollectBound(N)
         THEN cpc' = "recvRoutes" /\ retErr' = retErr
         ELSE cpc' = "done" /\ retErr' = ReturnErr(N, AnyFailed)
    /\ UNCHANGED <<manager, platforms, k, gpc, outcome, routesChan, routes,
                   rateVars, rankVars, convVars, adVars, webVars, dualVars>>

RateIdle ==
    /\ rateLimit = 0 /\ now = 0 /\ lastCall = 0 /\ rpc = << >> /\ wake = << >>
    /\ cur = << >> /\ calls = << >> /\ raced = FALSE
RankIdle == rankIn = << >> /\ rankOut = << >> /\ rankPc = "off" /\ toolchain = "none"
ConvIdle == convIn = << >> /\ convOut = << >> /\ convPc = "off"
AdIdle   == adIn = << >> /\ adOut = << >> /\ adPc = "off"
WebIdle  == webIn = << >> /\ webReq = << >> /\ webOut = << >> /\ webPc = "off"
DualIdle == rounds = << >> /\ chans = << >>

Init == AggInit /\ RateIdle /\ RankIdle /\ ConvIdle /\ AdIdle /\ WebIdle /\ DualIdle

Next ==
    \/ Begin
    \/ Dispatch
    \/ DispatchDone
    \/ \E p \in 1..N : GoSearch(p)
    \/ \E p \in 1..N : GoSendFirst(p)
    \/ \E p \in 1..N : GoSendSecond(p)
    \/ RecvRoutes
    \/ RecvErr

Spec == Init /\ [][Next]_vars

\* the round under fair scheduling: the goroutine running SearchAllPlatforms
\* and every provider goroutine take their next step whenever they can, and
\* every SearchRoutes call returns
CollectorStep == Begin \/ Dispatch \/ DispatchDone \/ RecvRoutes \/ RecvErr
ProviderStep(p) == GoSearch(p) \/ GoSendFirst(p) \/ GoSendSecond(p)

InitLive == RoundInit(MaxLiveN) /\ RateIdle /\ RankIdle /\ ConvIdle /\ AdIdle /\ WebIdle /\ DualIdle

SpecLive ==
    /\ InitLive /\ [][Next]_vars
    /\ WF_vars(CollectorStep)
    /\ \A p \in 1..MaxLiveN : WF_vars(p <= N /\ ProviderStep(p))

----------------------------------------------------------------------------
(* Two SearchAllPlatforms calls running at once on the one platformManager  *)
(* (two HTTP requests served concurrently): the manager's platforms are     *)
(* shared, everything else is local to a call                               *)

\* the concurrent calls; call r serves SearchRequest r
Rounds == 1..2

\* the locals of a call before its first statement
NewRound ==
    [cpc |-> "idle", k |-> 0, i |-> 0,
     gpc |-> [ p \in 1..N |-> "unborn" ],
     outcome |-> [ p \in 1..N |-> NotReturned ],
     routes |-> [round |-> 0, from |-> 0, routes |-> << >>],
     allRoutes |-> << >>, retErr |-> "none", got |-> {}]

\* make(chan []Route, len(pm.platforms)); make(chan error, len(pm.platforms))
NewChans == [routesChan |-> << >>, errorsChan |-> << >>]

\* the channels call r works on: routesChan and errorsChan are local
\* variables of the call, so those it made itself
ChanShared(r) == 1
ChanOwner(r) == r

\* what provider p returns for the request of call r: an error, or one offer
\* generated for that request (one offer is enough to tell the requests apart)
RoundOutcomes(r, p) ==
    { [ret |-> TRUE, err |-> TRUE, routes |-> << >>],
      [ret |-> TRUE, err |-> FALSE, routes |-> << [req |-> r, platform |-> p, id |-> 1] >>] }

DualInit ==
    /\ manager = "PlatformManager"
    /\ \E n \in 1..MaxDualN : platforms = [ x \in 1..n |-> x ]
    /\ cpc = "off" /\ k = 0 /\ i = 0
    /\ gpc = << >> /\ outcome = << >> /\ routesChan = << >> /\ errorsChan = << >>
    /\ routes = << >> /\ allRoutes = << >> /\ retErr = "none"
    /\ warnings = EmptyBag /\ received = << >>
    /\ rounds = [ r \in Rounds |-> NewRound ]
    /\ chans = [ r \in Rounds |-> NewChans ]

DualFrame == UNCHANGED <<aggVars, rateVars, rankVars, convVars, adVars, webVars>>

\* var allRoutes []Route; routesChan := make(...); errorsChan := make(...)
DualBegin(r) ==
    /\ rounds[r].cpc = "idle"
    /\ rounds' = [rounds EXCEPT ![r].cpc = "dispatch", ![r].k = 1, ![r].allRoutes = << >>]
    /\ chans' = [chans EXCEPT ![ChanOwner(r)] = NewChans]
    /\ DualFrame

\* for _, platform := range pm.platforms { go func(p PlatformService) {...}(platform) }
DualDispatch(r) ==
    /\ rounds[r].cpc = "dispatch" /\ rounds[r].k <= N
    /\ rounds' = [rounds EXCEPT ![r].gpc[rounds[r].k] = "call", ![r].k = @ + 1]
    /\ UNCHANGED chans
    /\ DualFrame

DualDispatchDone(r) ==
    /\ rounds[r].cpc = "dispatch" /\ rounds[r].k > N
    /\ rounds' = [rounds EXCEPT
                    ![r].i = 0,
                    ![r].cpc = IF 0 < CollectBound(N) THEN "recvRoutes" ELSE "done",
                    ![r].retErr = IF 0 < CollectBound(N) THEN @ ELSE ReturnErr(N, FALSE)]
    /\ UNCHANGED chans
    /\ DualFrame

\* routes, err := p.SearchRoutes(req)
DualGoSearch(r, p) ==
    /\ rounds[r].gpc[p] = "call"
    /\ \E o \in RoundOutcomes(r, p) :
         rounds' = [rounds EXCEPT ![r].outcome[p] = o, ![r].gpc[p] = "send1"]
    /\ UNCHANGED chans
    /\ DualFrame

DualErrItem(r, p) ==
    [round |-> r, from |-> p, err |-> IF rounds[r].outcome[p].err THEN "error" ELSE "nil"]
DualRoutesItem(r, p) ==
    [round |-> r, from |-> p,
     routes |-> IF rounds[r].outcome[p].err THEN << >> ELSE rounds[r].outcome[p].routes]

\* the goroutine's send on the channel its call uses: the error when "onErrors",
\* the routes otherwise
DualSend(r, p, onErrors) ==
    LET c == ChanOwner(r) IN
    IF onErrors
    THEN /\ Len(chans[c].errorsChan) < ChanCap
         /\ chans' = [chans EXCEPT ![c].errorsChan = Append(@, DualErrItem(r, p))]
    ELSE /\ Len(chans[c].routesChan) < ChanCap
         /\ chans' = [chans EXCEPT ![c].routesChan = Append(@, DualRoutesItem(r, p))]

\* errorsChan <- err after a failure, routesChan <- routes after a success
DualGoSendFirst(r, p) ==
    /\ rounds[r].gpc[p] = "send1"
    /\ DualSend(r, p, rounds[r].outcome[p].err)
    /\ rounds' = [rounds EXCEPT ![r].gpc[p] = "send2"]
    /\ DualFrame

\* routesChan <- nil after a failure, errorsChan <- nil after a success
DualGoSendSecond(r, p) ==
    /\ rounds[r].gpc[p] = "send2"
    /\ DualSend(r, p, ~rounds[r].outcome[p].err)
    /\ rounds' = [rounds EXCEPT ![r].gpc[p] = "done"]
    /\ DualFrame

\* routes := <-routesChan
DualRecvRoutes(r) ==
    LET c == ChanOwner(r) IN
    /\ rounds[r].cpc = "recvRoutes"
    /\ chans[c].routesChan # << >>
    /\ rounds' = [rounds EXCEPT ![r].routes = Head(chans[c].routesChan),
                                ![r].got = @ \cup { Head(chans[c].routesChan).round },
                                ![r].cpc = "recvErr"]
    /\ chans' = [chans EXCEPT ![c].routesChan = Tail(@)]
    /\ DualFrame

\* err := <-errorsChan; if err != nil { continue }; allRoutes = append(...)
DualRecvErr(r) ==
    LET c == ChanOwner(r) IN
    /\ rounds[r].cpc = "recvErr"
    /\ chans[c].errorsChan # << >>
    /\ LET e == Head(chans[c].errorsChan) IN
         rounds' = [rounds EXCEPT
                      ![r].allRoutes = Collect(@, rounds[r].routes.routes, e.err),
                      ![r].got = @ \cup { e.round },
                      ![r].i = @ + 1,
                      ![r].cpc = IF rounds[r].i + 1 < CollectBound(N)
                                 THEN "recvRoutes" ELSE "done",
                      ![r].retErr = IF rounds[r].i + 1 < CollectBound(N)
                                    THEN @ ELSE ReturnErr(N, FALSE)]
    /\ chans' = [chans EXCEPT ![c].errorsChan = Tail(@)]
    /\ DualFrame

InitDual == DualInit /\ RateIdle /\ RankIdle /\ ConvIdle /\ AdIdle /\ WebIdle

NextDual ==
    \/ \E r \in Rounds : DualBegin(r)
    \/ \E r \in Rounds : DualDispatch(r)
    \/ \E r \in Rounds : DualDispatchDone(r)
    \/ \E r \in Rounds, p \in 1..N : DualGoSearch(r, p)
    \/ \E r \in Rounds, p \in 1..N : DualGoSendFirst(r, p)
    \/ \E r \in Rounds, p \in 1..N : DualGoSendSecond(r, p)
    \/ \E r \in Rounds : DualRecvRoutes(r)
    \/ \E r \in Rounds : DualRecvErr(r)

SpecDual == InitDual /\ [][NextDual]_vars

\* C25: two rounds running concurrently on the same PlatformManager do not
\* interfere: a round receives only what its own provider goroutines sent,
\* its result holds only offers generated for its own request, and when it
\* returns every goroutine it dispatched has reported.
C25_RoundsDoNotInterfere ==
    \A r \in Rounds :
        /\ rounds[r].got \subseteq {r}
        /\ \A x \in 1..Len(rounds[r].allRoutes) : rounds[r].allRoutes[x].req = r
        /\ rounds[r].cpc = "done" => \A p \in 1..N : rounds[r].gpc[p] = "done"

C25_Witness ==
    /\ \A r \in Rounds :
          /\ rounds[r].cpc = "recvErr"
          /\ rounds[r].routes.round = r
          /\ rounds[r].routes.routes # << >>
    /\ \A r \in Rounds : chans[r].errorsChan # << >>

----------------------------------------------------------------------------
(* HTTPClient: RateLimit and MakeRequest *)

\* the goroutines that may call MakeRequest on the one HTTPClient instance
Callers == 1..2

\* the zero time.Time: h.lastCall of a client fresh from NewHTTPClient
ZeroTime == -1

\* time.Since of the zero time saturates at the largest Duration
MaxDuration == 2147483647

\* elapsed := time.Since(h.lastCall)
Since(t) == IF t = ZeroTime THEN MaxDuration ELSE now - t

\* time.Sleep(h.config.RateLimit - elapsed)
SleepDurationShort(limit, elapsed) == limit - elapsed - 1
SleepDuration(limit, elapsed) == limit - elapsed

\* MakeRequest's outcomes: body cannot be marshalled / request cannot be built,
\* client.Do or ReadAll fails, status outside 200-299, success
RequestResults == {"encoding", "transport", "protocol", "ok"}

\* the network operations (client.Do) one MakeRequest performs for a result:
\* a body that cannot be marshalled and a request that cannot be built
\* return before client.Do
NetworkOps(result) == IF result = "encoding" THEN 0 ELSE 1

\* where MakeRequest goes once the result is known: every path returns
RetryOnError(result) == IF result = "ok" THEN "idle" ELSE "limit"
AfterRequest(result) == "idle"

\* bookkeeping of an invocation: its number, whether and how often it slept
\* in RateLimit, how many network operations it made, its result
NoCall == [n |-> 0, waited |-> FALSE, sleeps |-> 0, netOps |-> 0, result |-> "none"]

RateInit ==
    /\ rateLimit \in 0..MaxR
    /\ now = 0
    /\ lastCall = ZeroTime
    /\ rpc = [ t \in Callers |-> "idle" ]
    /\ wake = [ t \in Callers |-> 0 ]
    /\ cur = [ t \in Callers |-> NoCall ]
    /\ calls = << >>
    /\ raced = FALSE

\* a caller enters MakeRequest, whose first statement is h.RateLimit()
MakeRequest(t) ==
    /\ rpc[t] = "idle"
    /\ cur[t].n < MaxCalls
    /\ rpc' = [rpc EXCEPT ![t] = "limit"]
    /\ cur' = [cur EXCEPT ![t] = [n |-> cur[t].n + 1, waited |-> FALSE,
                                       sleeps |-> 0, netOps |-> 0, result |-> "none"]]
    /\ raced' = (raced \/ \E u \in Callers \ {t} : rpc[u] # "idle")
    /\ UNCHANGED <<rateLimit, now, lastCall, wake, calls, aggVars, rankVars, convVars, adVars, webVars, dualVars>>

\* if h.config.RateLimit > 0 { elapsed := time.Since(h.lastCall);
\*     if elapsed < h.config.RateLimit { time.Sleep(h.config.RateLimit - elapsed) } }
RateLimitCheck(t) ==
    /\ rpc[t] = "limit"
    /\ IF rateLimit > 0 /\ Since(lastCall) < rateLimit
         THEN /\ wake' = [wake EXCEPT ![t] = now + SleepDuration(rateLimit, Since(lastCall))]
              /\ cur' = [cur EXCEPT ![t].waited = TRUE, ![t].sleeps = @ + 1]
              /\ rpc' = [rpc EXCEPT ![t] = "sleep"]
         ELSE /\ rpc' = [rpc EXCEPT ![t] = "stamp"]
              /\ UNCHANGED <<wake, cur>>
    /\ UNCHANGED <<rateLimit, now, lastCall, calls, raced, aggVars, rankVars, convVars, adVars, webVars, dualVars>>

\* time.Sleep returns once at least the requested duration has passed
SleepReturns(t) ==
    /\ rpc[t] = "sleep"
    /\ now >= wake[t]
    /\ rpc' = [rpc EXCEPT ![t] = "stamp"]
    /\ UNCHANGED <<rateLimit, now, lastCall, wake, cur, calls, raced,
                   aggVars, rankVars, convVars, adVars, webVars, dualVars>>

\* h.lastCall = time.Now(): the last statement of RateLimit, executed by
\* every invocation before MakeRequest does anything that can fail
LastCallKept(old, clock) == old
LastCallAfter(old, clock) == clock

\* MakeRequest's second return value: nil or an error
ErrorOf(result) == IF result = "ok" THEN "nil" ELSE "error"

\* the record of the history that belongs to caller t's current invocation
\* gets the error the invocation returned
WithResult(history, t, n, r) ==
    [ x \in 1..Len(history) |->
        IF history[x].caller = t /\ history[x].n = n
        THEN [history[x] EXCEPT !.err = ErrorOf(r)] ELSE history[x] ]

\* h.lastCall = time.Now()
RecordCall(t) ==
    /\ rpc[t] = "stamp"
    /\ lastCall' = LastCallAfter(lastCall, now)
    /\ calls' = Append(calls, [caller |-> t, n |-> cur[t].n, at |-> now,
                               waited |-> cur[t].waited, err |-> "none"])
    /\ rpc' = [rpc EXCEPT ![t] = "request"]
    /\ UNCHANGED <<rateLimit, now, wake, cur, raced, aggVars, rankVars, convVars, adVars, webVars, dualVars>>

\* the rest of MakeRequest: marshal, build the request, client.Do, read the
\* body, classify the status; every path returns
RequestReturns(t) ==
    /\ rpc[t] = "request"
    /\ \E r \in RequestResults :
         /\ cur' = [cur EXCEPT ![t].result = r, ![t].netOps = @ + NetworkOps(r)]
         /\ rpc' = [rpc EXCEPT ![t] = AfterRequest(r)]
         /\ calls' = WithResult(calls, t, cur[t].n, r)
    /\ UNCHANGED <<rateLimit, now, lastCall, wake, raced,
                   aggVars, rankVars, convVars, adVars, webVars, dualVars>>

\* time passes
Tick ==
    /\ now < MaxTime
    /\ now' = now + 1
    /\ UNCHANGED <<rateLimit, lastCall, rpc, wake, cur, calls, raced,
                   aggVars, rankVars, convVars, adVars, webVars, dualVars>>

InitRate == AggIdle /\ RateInit /\ RankIdle /\ ConvIdle /\ AdIdle /\ WebIdle /\ DualIdle

NextRate ==
    \/ \E t \in Callers : MakeRequest(t)
    \/ \E t \in Callers : RateLimitCheck(t)
    \/ \E t \in Callers : SleepReturns(t)
    \/ \E t \in Callers : RecordCall(t)
    \/ \E t \in Callers : RequestReturns(t)
    \/ Tick

SpecRate == InitRate /\ [][NextRate]_vars

\* C6: with rate interval R > 0, as long as the MakeRequest calls on the
\* instance are sequential (none starts while another is running), any two
\* recorded call times are at least R apart, and the first call on the fresh
\* instance does not wait.
C6_SequentialCallsSpaced ==
    ~raced =>
        /\ rateLimit > 0 =>
             \A a, b \in 1..Len(calls) : a < b => calls[b].at - calls[a].at >= rateLimit
        /\ calls # << >> => ~calls[1].waited

C6_Witness ==
    /\ ~raced /\ rateLimit > 0 /\ Len(calls) >= 2
    /\ calls[2].waited /\ calls[2].at - calls[1].at >= rateLimit

\* C18: encoding, transport and protocol failures are terminal for a
\* MakeRequest call: an invocation waits in RateLimit at most once, performs
\* at most one network operation (none after an encoding failure), stamps
\* lastCall once, and has returned as soon as its result is known.
C18_FailureIsTerminal ==
    /\ \A t \in Callers :
         /\ cur[t].sleeps <= 1
         /\ cur[t].netOps <= 1
         /\ cur[t].result = "encoding" => cur[t].netOps = 0
         /\ cur[t].result # "none" => rpc[t] = "idle"
    /\ \A a, b \in 1..Len(calls) :
         (a < b /\ calls[a].caller = calls[b].caller) => calls[a].n # calls[b].n

C18_Witness ==
    \E t \in Callers :
        /\ rpc[t] = "idle"
        /\ cur[t].result = "protocol"
        /\ cur[t].sleeps = 1
        /\ cur[t].netOps = 1

\* C26: every MakeRequest invocation stamps lastCall after its wait, also
\* when it then fails with an encoding, transport or protocol error: an
\* invocation that has a result has its record in the history, and, the calls
\* being sequential, a call that follows a failed call is at least R after
\* it; with RateLimit = 0 no invocation ever waits.
C26_FailedCallsCountForSpacing ==
    /\ \A t \in Callers :
         cur[t].result # "none" =>
             \E x \in 1..Len(calls) :
                 /\ calls[x].caller = t /\ calls[x].n = cur[t].n
                 /\ calls[x].err = ErrorOf(cur[t].result)
                 /\ lastCall >= calls[x].at
    /\ (~raced /\ rateLimit > 0) =>
         \A a, b \in 1..Len(calls) :
             (b = a + 1 /\ calls[a].err = "error")
                 => calls[b].at - calls[a].at >= rateLimit
    /\ rateLimit = 0 =>
         /\ \A t \in Callers : ~cur[t].waited /\ rpc[t] # "sleep"
         /\ \A x \in 1..Len(calls) : ~calls[x].waited

C26_Witness ==
    /\ ~raced /\ rateLimit > 0 /\ Len(calls) >= 2
    /\ calls[1].err = "error"
    /\ calls[2].waited
    /\ calls[2].at - calls[1].at = rateLimit

\* C7: with rate interval R > 0, any two MakeRequest calls on the instance,
\* overlapping ones included, have recorded call times at least R apart.
C7_AllCallsSpaced ==
    rateLimit > 0 =>
        \A a, b \in 1..Len(calls) : a < b => calls[b].at - calls[a].at >= rateLimit

----------------------------------------------------------------------------
(* Ranking: sort.Slice(routes, func(i, j int) bool {                        *)
(*              return routes[i].Price.Amount < routes[j].Price.Amount })   *)

\* The toolchains whose sort.Slice differ: up to Go 1.18 (quickSort_func) and
\* from Go 1.19 on (pdqsort_func).
Toolchains == {"quickSort", "pdqsort"}

\* both implementations handle at most 12 elements without partitioning
MaxInsertion == 12

\* the gap of quickSort_func's single ShellSort pass
ShellGap == 6

\* the less function the handlers pass to sort.Slice
LessDescending(x, y) == x.amount > y.amount
Less(x, y) == x.amount < y.amount

\* data.Swap(a, b)
Swap(s, a, b) == [s EXCEPT ![a] = s[b], ![b] = s[a]]

\* for j := i; j > a && data.Less(j, j-1); j-- { data.Swap(j, j-1) }
RECURSIVE SiftDown(_, _)
SiftDown(s, j) ==
    IF j > 1 /\ Less(s[j], s[j-1]) THEN SiftDown(Swap(s, j, j-1), j-1) ELSE s

\* insertionSort_func: for i := a + 1; i < b; i++ { ... }
RECURSIVE InsertionSortFrom(_, _)
InsertionSortFrom(s, x) ==
    IF x > Len(s) THEN s ELSE InsertionSortFrom(SiftDown(s, x), x + 1)
InsertionSort(s) == InsertionSortFrom(s, 2)

\* quickSort_func on at most 12 elements:
\* for i := a + 6; i < b; i++ { if data.Less(i, i-6) { data.Swap(i, i-6) } }
RECURSIVE ShellPassFrom(_, _)
ShellPassFrom(s, x) ==
    IF x > Len(s) THEN s
    ELSE ShellPassFrom(IF Less(s[x], s[x - ShellGap]) THEN Swap(s, x, x - ShellGap) ELSE s,
                       x + 1)
ShellPass(s) == ShellPassFrom(s, ShellGap + 1)

\* sort.Slice on a list of at most MaxInsertion elements
SortSlice(s, tc) ==
    IF tc = "pdqsort" THEN InsertionSort(s)
    ELSE IF Len(s) > 1 THEN InsertionSort(ShellPass(s)) ELSE s

\* the merged offers in arrival order: offer x is the x-th of the aggregator's
\* output
RankInputs ==
    UNION { { [ x \in 1..n |-> [id |-> x, amount |-> f[x]] ] : f \in [1..n -> 1..MaxAmount] }
            : n \in 0..MaxLen }

RankInit ==
    /\ rankIn \in RankInputs
    /\ rankOut = << >>
    /\ rankPc = "ready"
    /\ toolchain \in Toolchains

\* routes, err := SearchAllPlatforms(req); sort.Slice(routes, ...)
Rank ==
    /\ rankPc = "ready"
    /\ Len(rankIn) <= MaxInsertion
    /\ rankOut' = SortSlice(rankIn, toolchain)
    /\ rankPc' = "ranked"
    /\ UNCHANGED <<rankIn, toolchain, aggVars, rateVars, convVars, adVars, webVars, dualVars>>

InitRank == AggIdle /\ RateIdle /\ RankInit /\ ConvIdle /\ AdIdle /\ WebIdle /\ DualIdle

NextRank == Rank

SpecRank == InitRank /\ [][NextRank]_vars

Ranked == rankPc = "ranked"

\* C8: the ranked list is non-decreasing in Price.Amount and is a permutation
\* of the list that was ranked (nothing added, dropped or duplicated), for
\* every input, the empty list and lists with equal prices included.
C8_RankSortedPermutation ==
    Ranked =>
        /\ \A x, y \in 1..Len(rankOut) : x < y => rankOut[x].amount <= rankOut[y].amount
        /\ SeqToBag(rankOut) = SeqToBag(rankIn)

C8_Witness ==
    /\ Ranked /\ Len(rankIn) >= 3 /\ rankOut # rankIn
    /\ \E x, y \in 1..Len(rankIn) : x # y /\ rankIn[x].amount = rankIn[y].amount

\* C9: two offers with equal Price.Amount appear in the ranked list in the
\* relative order they had in the aggregator's output.
C9_RankStable ==
    Ranked =>
        \A x, y \in 1..Len(rankOut) :
            (x < y /\ rankOut[x].amount = rankOut[y].amount) => rankOut[x].id < rankOut[y].id

----------------------------------------------------------------------------
(* RealRedBusService.convertRedBusRoute: time parsing and normalisation     *)

MinutesPerHour == 60
DayMinutes     == 24 * MinutesPerHour

\* Instants are minutes since 00:00 UTC of day 0.  A time.Time is an instant
\* together with its Location.
Locations == {"UTC", "Asia/Kolkata", "Europe/London"}

\* Europe/London switches to summer time on day 1 and back on day 3, both at
\* 01:00 UTC.
SummerStart == 1 * DayMinutes + MinutesPerHour
SummerEnd   == 3 * DayMinutes + MinutesPerHour

ZoneOffsets(loc) ==
    CASE loc = "UTC"           -> {0}
      [] loc = "Asia/Kolkata"  -> {330}
      [] loc = "Europe/London" -> {0, 60}

\* the offset in force in loc at instant u
Offset(loc, u) ==
    CASE loc = "UTC"           -> 0
      [] loc = "Asia/Kolkata"  -> 330
      [] loc = "Europe/London" -> IF u >= SummerStart /\ u < SummerEnd THEN 60 ELSE 0

\* t.Year(), t.Month(), t.Day() of a time.Time, as a day number
DayOf(t) == (t.instant + Offset(t.loc, t.instant)) \div DayMinutes

\* time.Date(year, month, day, hour, min, 0, 0, loc): the instant whose wall
\* clock in loc reads day/hour:min.  A wall clock reading that occurs twice or
\* not at all around a transition gives a time correct in one of the two
\* zones, either of them.
Date(day, hour, min, loc) ==
    LET wall  == day * DayMinutes + hour * MinutesPerHour + min
        exact == { wall - o : o \in { z \in ZoneOffsets(loc) : Offset(loc, wall - z) = z } }
        cands == IF exact # {} THEN exact ELSE { wall - o : o \in ZoneOffsets(loc) }
    IN  { [instant |-> u, loc |-> loc] : u \in cands }

\* t.Add(d)
Add(t, d) == [t EXCEPT !.instant = t.instant + d]

Digits == <<"0", "1", "2", "3", "4", "5", "6", "7", "8", "9">>
IsDigit(c)  == \E d \in 1..10 : Digits[d] = c
DigitVal(c) == (CHOOSE d \in 1..10 : Digits[d] = c) - 1

ParseFailed == [ok |-> FALSE, hour |-> 0, min |-> 0]

\* time.Parse("15:04", value): an hour of one or two digits below 24, a colon,
\* a minute of exactly two digits below 60, and nothing after it
Parse1504(value) ==
    IF value = << >> \/ ~IsDigit(value[1]) THEN ParseFailed
    ELSE
      LET two  == Len(value) >= 2 /\ IsDigit(value[2])
          hour == IF two THEN 10 * DigitVal(value[1]) + DigitVal(value[2])
                         ELSE DigitVal(value[1])
          rest == SubSeq(value, IF two THEN 3 ELSE 2, Len(value))
      IN  IF hour >= 24 \/ Len(rest) # 3 \/ rest[1] # ":"
             \/ ~IsDigit(rest[2]) \/ ~IsDigit(rest[3]) THEN ParseFailed
          ELSE LET min == 10 * DigitVal(rest[2]) + DigitVal(rest[3])
               IN  IF min >= 60 THEN ParseFailed
                   ELSE [ok |-> TRUE, hour |-> hour, min |-> min]

\* arrivalTime.Before(departureTime), both on the parse's reference day
Before(a, d) == a.hour * MinutesPerHour + a.min < d.hour * MinutesPerHour + d.min

\* the provider's raw departureTime / arrivalTime strings
RawTimes == {
    <<"0", "0", ":", "3", "0">>,
    <<"0", "1", ":", "3", "0">>,
    <<"6", ":", "1", "5">>,
    <<"1", "4", ":", "0", "0">>,
    <<"2", "3", ":", "4", "5">>,
    <<"2", "4", ":", "0", "0">>,
    <<"0", "6", ":", "6", "0">>,
    <<"0", "6", "3", "0">>,
    <<"1", "4", ":", "0", "0", ":", "0", "0">>,
    << >> }

NoRoute == [err |-> TRUE,
            DepartureTime |-> [instant |-> 0, loc |-> "UTC"],
            ArrivalTime   |-> [instant |-> 0, loc |-> "UTC"]]

\* "Handle next day arrival": arrivalDateTime.Add(24 * time.Hour)
NextDayArrivalNever(arrival, isBefore) == arrival
NextDayArrival(arrival, isBefore) ==
    IF isBefore THEN Add(arrival, 24 * MinutesPerHour) ELSE arrival

\* convertRedBusRoute(rbRoute, req): the possible (Route, error) results
convertRedBusRoute(rbDeparture, rbArrival, reqDate) ==
    LET departureTime == Parse1504(rbDeparture)
        arrivalTime   == Parse1504(rbArrival)
    IN  IF ~departureTime.ok \/ ~arrivalTime.ok THEN { NoRoute }
        ELSE { [err |-> FALSE,
                DepartureTime |-> departureDateTime,
                ArrivalTime   |-> NextDayArrival(arrivalDateTime,
                                                 Before(arrivalTime, departureTime))] :
                 departureDateTime \in Date(reqDate.day, departureTime.hour,
                                            departureTime.min, reqDate.loc),
                 arrivalDateTime   \in Date(reqDate.day, arrivalTime.hour,
                                            arrivalTime.min, reqDate.loc) }

ConvInit ==
    /\ \E day \in 0..MaxDay, loc \in Locations, d \in RawTimes, a \in RawTimes :
         convIn = [date |-> [day |-> day, loc |-> loc], departure |-> d, arrival |-> a]
    /\ convOut = NoRoute
    /\ convPc = "ready"

Convert ==
    /\ convPc = "ready"
    /\ convOut' \in convertRedBusRoute(convIn.departure, convIn.arrival, convIn.date)
    /\ convPc' = "done"
    /\ UNCHANGED <<convIn, aggVars, rateVars, rankVars, adVars, webVars, dualVars>>

InitConvert == AggIdle /\ RateIdle /\ RankIdle /\ ConvInit /\ AdIdle /\ WebIdle /\ DualIdle

NextConvert == Convert

SpecConvert == InitConvert /\ [][NextConvert]_vars

Converted == convPc = "done" /\ ~convOut.err

\* C10: in a converted offer the departure is on the search date; the arrival
\* is exactly one calendar day after the search date when the raw arrival
\* time-of-day is strictly earlier than the raw departure time-of-day, and on
\* the search date otherwise.
C10_OvernightArrivalNextDay ==
    Converted =>
        /\ DayOf(convOut.DepartureTime) = convIn.date.day
        /\ DayOf(convOut.ArrivalTime) =
             IF Before(Parse1504(convIn.arrival), Parse1504(convIn.departure))
               THEN convIn.date.day + 1 ELSE convIn.date.day

----------------------------------------------------------------------------
(* Provider adapters: the mock services, RealRedBusService and              *)
(* RapidAPIBusService                                                       *)

MockKinds == {"RedBusService", "MakeMyTripService", "GoibiboService"}
RealKinds == {"RealRedBusService", "RapidAPIBusService"}

\* GetPlatformName(): a constant in the mock services, r.Name (as set by the
\* constructor) in the real ones
GetPlatformName(kind) ==
    CASE kind = "RedBusService"      -> "RedBus"
      [] kind = "MakeMyTripService"  -> "MakeMyTrip"
      [] kind = "GoibiboService"     -> "Goibibo"
      [] kind = "RealRedBusService"  -> "RedBus"
      [] kind = "RapidAPIBusService" -> "Transport API"

\* the Price.Platform each adapter writes into its routes
PricePlatformLower(kind) ==
    CASE kind = "RedBusService"      -> "redbus"
      [] kind = "MakeMyTripService"  -> "makemytrip"
      [] kind = "GoibiboService"     -> "goibibo"
      [] kind = "RealRedBusService"  -> "redbus"
      [] kind = "RapidAPIBusService" -> "transport_api"
PricePlatform(kind) ==
    CASE kind = "RedBusService"      -> "RedBus"
      [] kind = "MakeMyTripService"  -> "MakeMyTrip"
      [] kind = "GoibiboService"     -> "Goibibo"
      [] kind = "RealRedBusService"  -> "RedBus"
      [] kind = "RapidAPIBusService" -> "Transport API"

\* the Price.Currency each adapter writes into its routes
PriceCurrency(kind) == "INR"

\* GetSampleLocations(), reduced to the fields the adapters read or copy
GetSampleLocations == <<
    [ID |-> "mumbai",    City |-> "Mumbai"],
    [ID |-> "pune",      City |-> "Pune"],
    [ID |-> "bangalore", City |-> "Bangalore"],
    [ID |-> "delhi",     City |-> "Delhi"] >>

\* var fromLoc Location: the zero value
ZeroLocation == [ID |-> "", City |-> ""]

\* for _, loc := range locations { if loc.City == city { found = loc } }
RECURSIVE FindLocationFrom(_, _, _)
FindLocationFrom(locations, city, found) ==
    IF locations = << >> THEN found
    ELSE FindLocationFrom(Tail(locations), city,
                          IF Head(locations).City = city THEN Head(locations) ELSE found)
FindLocation(city) == FindLocationFrom(GetSampleLocations, city, ZeroLocation)

\* the cities a SearchRequest names here; "Chennai" has no sample location
ReqCities == {"Mumbai", "Pune", "Chennai"}

\* req.Date as an instant: midnight of the search day in its location
DateInstant(d) == CHOOSE t \in Date(d.day, 0, 0, d.loc) : TRUE

\* the loop of a mock service: for i := 0; i < rand.Intn(span)+base; i++,
\* with the departure hour first+i*step and a journey of "journey" hours
MockLoopFromZero(kind) ==
    CASE kind = "RedBusService"     -> [base |-> 2, span |-> 3, first |-> 6, step |-> 4, journey |-> 8]
      [] kind = "MakeMyTripService" -> [base |-> 0, span |-> 4, first |-> 7, step |-> 3, journey |-> 9]
      [] kind = "GoibiboService"    -> [base |-> 2, span |-> 3, first |-> 8, step |-> 4, journey |-> 7]
MockLoop(kind) ==
    CASE kind = "RedBusService"     -> [base |-> 2, span |-> 3, first |-> 6, step |-> 4, journey |-> 8]
      [] kind = "MakeMyTripService" -> [base |-> 1, span |-> 4, first |-> 7, step |-> 3, journey |-> 9]
      [] kind = "GoibiboService"    -> [base |-> 2, span |-> 3, first |-> 8, step |-> 4, journey |-> 7]

\* the numbers of iterations the loop can run: the bound rand.Intn(span)+base
\* is drawn again before every iteration
RECURSIVE LoopCountsFrom(_, _, _)
LoopCountsFrom(x, base, span) ==
    LET bounds == { base + r : r \in 0..(span - 1) } IN
      (IF \E b \in bounds : ~(x < b) THEN {x} ELSE {})
      \cup (IF \E b \in bounds : x < b THEN LoopCountsFrom(x + 1, base, span) ELSE {})
MockCounts(kind) == LoopCountsFrom(0, MockLoop(kind).base, MockLoop(kind).span)

\* the route the mock builds in iteration x (x = i + 1)
MockRoute(kind, req, x) ==
    LET loop == MockLoop(kind)
        dep  == loop.first + (x - 1) * loop.step
    IN  [ID |-> x,
         From |-> FindLocation(req.FromCity),
         To   |-> FindLocation(req.ToCity),
         DepartureTime |-> Add(DateInstant(req.Date), dep * MinutesPerHour),
         ArrivalTime   |-> Add(DateInstant(req.Date), (dep + loop.journey) * MinutesPerHour),
         Platform |-> PricePlatform(kind),
         Currency |-> PriceCurrency(kind)]

\* a mock's SearchRoutes: the possible ([]Route, error) results
MockSearchRoutesStrict(kind, req) ==
    IF FindLocation(req.FromCity) = ZeroLocation \/ FindLocation(req.ToCity) = ZeroLocation
    THEN { [err |-> TRUE, routes |-> << >>] }
    ELSE { [err |-> FALSE, routes |-> [ x \in 1..c |-> MockRoute(kind, req, x) ]] :
             c \in MockCounts(kind) }
MockSearchRoutes(kind, req) ==
    { [err |-> FALSE, routes |-> [ x \in 1..c |-> MockRoute(kind, req, x) ]] :
        c \in MockCounts(kind) }

\* ---- calendar arithmetic of package time -------------------------------

\* the number of days from 1970-01-01 to year-month-day
DaysFromCivil(year, month, day) ==
    LET y   == IF month <= 2 THEN year - 1 ELSE year
        era == y \div 400
        yoe == y - era * 400
        mp  == IF month > 2 THEN month - 3 ELSE month + 9
        doy == (153 * mp + 2) \div 5 + day - 1
        doe == yoe * 365 + yoe \div 4 - yoe \div 100 + doy
    IN  era * 146097 + doe - 719468

IsLeap(year) == year % 4 = 0 /\ (year % 100 # 0 \/ year % 400 = 0)
DaysIn(month, year) ==
    IF month = 2 THEN (IF IsLeap(year) THEN 29 ELSE 28)
    ELSE IF month \in {4, 6, 9, 11} THEN 30 ELSE 31

\* the zero time.Time: 0001-01-01 00:00:00 UTC
ZeroTimeValue == [instant |-> DaysFromCivil(1, 1, 1) * DayMinutes, loc |-> "UTC"]

AllDigits(value, from, to) == \A x \in from..to : IsDigit(value[x])
Num2(value, x) == 10 * DigitVal(value[x]) + DigitVal(value[x + 1])
Num4(value, x) == 100 * Num2(value, x) + Num2(value, x + 2)

DateFailed == [ok |-> FALSE, year |-> 0, month |-> 0, day |-> 0]

\* the date part of a layout, "2006-01-02", read from the first 10 characters
ParseDatePrefix(value) ==
    IF Len(value) < 10 \/ ~AllDigits(value, 1, 4) \/ value[5] # "-"
       \/ ~AllDigits(value, 6, 7) \/ value[8] # "-" \/ ~AllDigits(value, 9, 10)
    THEN DateFailed
    ELSE LET year == Num4(value, 1) month == Num2(value, 6) day == Num2(value, 9) IN
         IF month < 1 \/ month > 12 \/ day < 1 \/ day > DaysIn(month, year)
         THEN DateFailed
         ELSE [ok |-> TRUE, year |-> year, month |-> month, day |-> day]

\* time.Parse("2006-01-02", value)
ParseDate(value) == IF Len(value) # 10 THEN DateFailed ELSE ParseDatePrefix(value)

\* time.Parse(time.RFC3339, value) for values in the UTC form
\* "2006-01-02T15:04:05Z": the time, or the zero time and an error
ParseRFC3339(value) ==
    LET date == ParseDatePrefix(value) IN
    IF ~date.ok \/ Len(value) # 20 \/ value[11] # "T"
       \/ ~AllDigits(value, 12, 13) \/ value[14] # ":" \/ ~AllDigits(value, 15, 16)
       \/ value[17] # ":" \/ ~AllDigits(value, 18, 19) \/ value[20] # "Z"
    THEN [ok |-> FALSE, time |-> ZeroTimeValue]
    ELSE LET hour == Num2(value, 12) min == Num2(value, 15) sec == Num2(value, 18) IN
         IF hour >= 24 \/ min >= 60 \/ sec >= 60
         THEN [ok |-> FALSE, time |-> ZeroTimeValue]
         ELSE [ok |-> TRUE,
               time |-> [instant |-> DaysFromCivil(date.year, date.month, date.day) * DayMinutes
                                     + hour * MinutesPerHour + min,
                         loc |-> "UTC"]]

\* ---- the real adapters --------------------------------------------------

\* json.Unmarshal(responseBody, &apiResponse) fails on text that is not JSON
\* and on any value of the wrong JSON type, inside a record included
UnmarshalFails(body) ==
    ~body.syntax \/ \E x \in 1..Len(body.records) : ~body.records[x].typed

\* the Route convertRedBusRoute returns for one record (its time part is
\* convertRedBusRoute above)
RealRedBusRoutes(rec, req) ==
    { [err |-> c.err,
       route |-> [ID |-> rec.id,
                  From |-> FindLocation(req.FromCity),
                  To   |-> FindLocation(req.ToCity),
                  DepartureTime |-> c.DepartureTime,
                  ArrivalTime   |-> c.ArrivalTime,
                  Platform |-> PricePlatform("RealRedBusService"),
                  Currency |-> PriceCurrency("RealRedBusService")]] :
        c \in convertRedBusRoute(rec.departure, rec.arrival, req.Date) }

\* for _, rbRoute := range apiResponse.Data { route, err := convert...;
\*     if err != nil { continue }; routes = append(routes, route) }
RECURSIVE RealRedBusConvertAll(_, _)
RealRedBusConvertAll(records, req) ==
    IF records = << >> THEN { << >> }
    ELSE { (IF c.err THEN << >> ELSE << c.route >>) \o rest :
             c \in RealRedBusRoutes(Head(records), req),
             rest \in RealRedBusConvertAll(Tail(records), req) }

AdapterError == [err |-> TRUE, routes |-> << >>]

\* RealRedBusService.SearchRoutes
RealRedBusSearchRoutes(req, transport, body) ==
    IF transport # "ok" THEN { AdapterError }
    ELSE IF UnmarshalFails(body) THEN { AdapterError }
    ELSE { [err |-> FALSE, routes |-> rs] : rs \in RealRedBusConvertAll(body.records, req) }

\* the Route RapidAPIBusService.SearchRoutes builds for one record: the parse
\* errors are dropped (departureTime, _ := time.Parse(...))
RapidAPIRoute(rec, req) ==
    [ID |-> rec.id,
     From |-> FindLocation(req.FromCity),
     To   |-> FindLocation(req.ToCity),
     DepartureTime |-> ParseRFC3339(rec.departure).time,
     ArrivalTime   |-> ParseRFC3339(rec.arrival).time,
     Platform |-> PricePlatform("RapidAPIBusService"),
     Currency |-> PriceCurrency("RapidAPIBusService")]

\* RapidAPIBusService.SearchRoutes
RapidAPISearchRoutes(req, transport, body) ==
    IF transport # "ok" THEN { AdapterError }
    ELSE IF UnmarshalFails(body) THEN { AdapterError }
    ELSE { [err |-> FALSE,
            routes |-> [ x \in 1..Len(body.records) |-> RapidAPIRoute(body.records[x], req) ]] }

\* p.SearchRoutes(req) of any adapter
AdapterSearchRoutes(in) ==
    CASE in.kind \in MockKinds          -> MockSearchRoutes(in.kind, in.req)
      [] in.kind = "RealRedBusService"  -> RealRedBusSearchRoutes(in.req, in.transport, in.body)
      [] in.kind = "RapidAPIBusService" -> RapidAPISearchRoutes(in.req, in.transport, in.body)

\* ---- what the providers answer ------------------------------------------

\* records of a RedBus response: departureTime / arrivalTime as "15:04" text
RedBusRecords == {
    [typed |-> TRUE,  departure |-> <<"2", "3", ":", "4", "5">>, arrival |-> <<"0", "0", ":", "3", "0">>],
    [typed |-> TRUE,  departure |-> <<"6", ":", "1", "5">>, arrival |-> <<"1", "4", ":", "0", "0">>],
    [typed |-> TRUE,  departure |-> <<"2", "4", ":", "0", "0">>, arrival |-> <<"1", "4", ":", "0", "0">>],
    [typed |-> FALSE, departure |-> <<"6", ":", "1", "5">>, arrival |-> <<"1", "4", ":", "0", "0">>] }

\* records of a Transport API response: departure / arrival as RFC 3339 text
RapidAPIRecords == {
    [typed |-> TRUE,  departure |-> <<"2", "0", "2", "5", "-", "0", "8", "-", "2", "1", "T", "0", "6", ":", "0", "0", ":", "0", "0", "Z">>, arrival |-> <<"2", "0", "2", "5", "-", "0", "8", "-", "2", "1", "T", "1", "4", ":", "0", "0", ":", "0", "0", "Z">>],
    [typed |-> TRUE,  departure |-> <<"2", "0", "2", "5", "-", "0", "8", "-", "2", "1", "T", "2", "2", ":", "0", "0", ":", "0", "0", "Z">>, arrival |-> <<"2", "0", "2", "5", "-", "0", "8", "-", "2", "1", "T", "0", "5", ":", "0", "0", ":", "0", "0", "Z">>],
    [typed |-> TRUE,  departure |-> <<"2", "0", "2", "5", "-", "0", "8", "-", "2", "1", "T", "0", "6", ":", "0", "0", ":", "0", "0", "Z">>, arrival |-> <<"t", "o", "m", "o", "r", "r", "o", "w">>],
    [typed |-> FALSE, departure |-> <<"2", "0", "2", "5", "-", "0", "8", "-", "2", "1", "T", "0", "6", ":", "0", "0", ":", "0", "0", "Z">>, arrival |-> <<"2", "0", "2", "5", "-", "0", "8", "-", "2", "1", "T", "1", "4", ":", "0", "0", ":", "0", "0", "Z">>] }

\* response bodies of at most m records; record x carries id x
BodiesUpTo(recordSet, m) ==
    { [syntax |-> FALSE, records |-> << >>] } \cup
    UNION { { [syntax |-> TRUE,
               records |-> [ x \in 1..n |-> [id |-> x, typed |-> f[x].typed,
                                             departure |-> f[x].departure,
                                             arrival |-> f[x].arrival] ]] :
                f \in [1..n -> recordSet] } : n \in 0..m }
Bodies(recordSet) == BodiesUpTo(recordSet, MaxOffers)

NoBody == [syntax |-> FALSE, records |-> << >>]

SearchRequests(locs) ==
    { [FromCity |-> f, ToCity |-> t, Date |-> [day |-> d, loc |-> l]] :
        f \in ReqCities, t \in ReqCities, d \in 0..MaxDay, l \in locs }

AdapterInputs ==
    { [kind |-> kd, req |-> r, transport |-> "ok", body |-> NoBody] :
        kd \in MockKinds, r \in SearchRequests({"UTC"}) }
    \cup { [kind |-> "RealRedBusService", req |-> r, transport |-> tr, body |-> NoBody] :
             r \in SearchRequests(Locations), tr \in RequestResults \ {"ok"} }
    \cup { [kind |-> "RealRedBusService", req |-> r, transport |-> "ok", body |-> b] :
             r \in SearchRequests(Locations), b \in Bodies(RedBusRecords) }
    \cup { [kind |-> "RapidAPIBusService", req |-> r, transport |-> tr, body |-> NoBody] :
             r \in SearchRequests({"UTC"}), tr \in RequestResults \ {"ok"} }
    \cup { [kind |-> "RapidAPIBusService", req |-> r, transport |-> "ok", body |-> b] :
             r \in SearchRequests({"UTC"}), b \in Bodies(RapidAPIRecords) }

AdInit ==
    /\ adIn \in AdapterInputs
    /\ adOut = AdapterError
    /\ adPc = "ready"

\* routes, err := p.SearchRoutes(req)
AdapterSearch ==
    /\ adPc = "ready"
    /\ adOut' \in AdapterSearchRoutes(adIn)
    /\ adPc' = "done"
    /\ UNCHANGED <<adIn, aggVars, rateVars, rankVars, convVars, webVars, dualVars>>

InitAdapter == AggIdle /\ RateIdle /\ RankIdle /\ ConvIdle /\ AdInit /\ WebIdle /\ DualIdle

NextAdapter == AdapterSearch

SpecAdapter == InitAdapter /\ [][NextAdapter]_vars

Searched == adPc = "done"

\* a time.Time is not after another
NotAfter(a, b) == a.instant <= b.instant

----------------------------------------------------------------------------
(* The aggregation round over the providers the constructors register *)

\* NewPlatformManager(): the three mock services
NewPlatformManager == <<"RedBusService", "MakeMyTripService", "GoibiboService">>

\* an API key of the configuration: empty (unset) or not
APIKeys == {"", "key"}

\* NewRealPlatformManager(redBusAPIKey, rapidAPIKey): the RedBus mock always,
\* a real service for every key that is set
NewRealPlatformManager(redBusAPIKey, rapidAPIKey) ==
    <<"RedBusService">>
    \o (IF redBusAPIKey # "" THEN <<"RealRedBusService">> ELSE << >>)
    \o (IF rapidAPIKey # "" THEN <<"RapidAPIBusService">> ELSE << >>)

\* the SearchRequest of the round
RoundRequest == [FromCity |-> "Mumbai", ToCity |-> "Pune",
                 Date |-> [day |-> 0, loc |-> "UTC"]]

\* what a real provider may answer within a round
ProviderAnswers(kind) ==
    { [transport |-> tr, body |-> NoBody] : tr \in RequestResults \ {"ok"} }
    \cup { [transport |-> "ok", body |-> b] :
             b \in BodiesUpTo(IF kind = "RealRedBusService" THEN RedBusRecords
                                                             ELSE RapidAPIRecords,
                              MaxRecords) }

\* the results of platforms[p].SearchRoutes(req); every route is tagged with
\* the provider that produced it
RoundSearchRoutes(p) ==
    LET kind == platforms[p]
        results ==
          IF kind \in MockKinds
          THEN AdapterSearchRoutes([kind |-> kind, req |-> RoundRequest,
                                    transport |-> "ok", body |-> NoBody])
          ELSE UNION { AdapterSearchRoutes([kind |-> kind, req |-> RoundRequest,
                                            transport |-> a.transport, body |-> a.body]) :
                         a \in ProviderAnswers(kind) }
    IN  { [ret |-> TRUE, err |-> o.err,
           routes |-> [ x \in 1..Len(o.routes) |->
                          [platform |-> p, id |-> x, route |-> o.routes[x]] ]] :
            o \in results }

ManagersInit ==
    /\ \/ manager = "PlatformManager" /\ platforms = NewPlatformManager
       \/ /\ manager = "RealPlatformManager"
          /\ \E redBusAPIKey \in APIKeys, rapidAPIKey \in APIKeys :
                platforms = NewRealPlatformManager(redBusAPIKey, rapidAPIKey)
    /\ cpc = "idle" /\ k = 0 /\ i = 0
    /\ gpc = [ p \in 1..Len(platforms) |-> "unborn" ]
    /\ outcome = [ p \in 1..Len(platforms) |-> NotReturned ]
    /\ routesChan = << >> /\ errorsChan = << >>
    /\ routes = [from |-> 0, routes |-> << >>] /\ allRoutes = << >> /\ retErr = "none"
    /\ warnings = EmptyBag /\ received = << >>

\* routes, err := p.SearchRoutes(req), dispatched to the registered adapter
GoSearchAdapter(p) ==
    /\ gpc[p] = "call"
    /\ \E o \in RoundSearchRoutes(p) :
         /\ outcome' = [outcome EXCEPT ![p] = o]
         /\ warnings' = IF manager = "RealPlatformManager"
                          THEN LogWarning(warnings, p, o.err) ELSE warnings
    /\ gpc' = [gpc EXCEPT ![p] = "send1"]
    /\ UNCHANGED <<manager, platforms, cpc, k, i, routesChan, errorsChan,
                   routes, allRoutes, retErr, received,
                   rateVars, rankVars, convVars, adVars, webVars, dualVars>>

InitManagers == ManagersInit /\ RateIdle /\ RankIdle /\ ConvIdle /\ AdIdle /\ WebIdle /\ DualIdle

NextManagers ==
    \/ Begin
    \/ Dispatch
    \/ DispatchDone
    \/ \E p \in 1..N : GoSearchAdapter(p)
    \/ \E p \in 1..N : GoSendFirst(p)
    \/ \E p \in 1..N : GoSendSecond(p)
    \/ RecvRoutes
    \/ RecvErr

SpecManagers == InitManagers /\ [][NextManagers]_vars

----------------------------------------------------------------------------
(* The HTTP handlers searchHandler (POST /search) and routesHandler         *)
(* (GET /routes)                                                            *)

\* t.IsZero()
IsZero(t) == t.instant = ZeroTimeValue.instant

\* time.Now() when the handler runs, and time.Now().AddDate(0, 0, 1)
HandlerNow == [instant |-> DaysFromCivil(2025, 8, 20) * DayMinutes + 10 * MinutesPerHour + 30,
               loc |-> "UTC"]
Tomorrow   == [instant |-> HandlerNow.instant + DayMinutes, loc |-> "UTC"]

\* var searchReq SearchRequest: the zero value
NoRequest == [FromCity |-> "", ToCity |-> "", Date |-> ZeroTimeValue, Passengers |-> 0]

\* json.NewDecoder(r.Body).Decode(&searchReq): the text must be JSON and the
\* date, when present, an RFC 3339 time; an absent field keeps its zero value
\* (an absent date is the empty text here, absent passengers 0)
Decode(body) ==
    LET date == IF body.date = << >> THEN [ok |-> TRUE, time |-> ZeroTimeValue]
                ELSE ParseRFC3339(body.date)
    IN  IF ~body.syntax \/ ~date.ok THEN [ok |-> FALSE, req |-> NoRequest]
        ELSE [ok |-> TRUE,
              req |-> [FromCity |-> body.from_city, ToCity |-> body.to_city,
                       Date |-> date.time, Passengers |-> body.passengers]]

\* strconv.Atoi: an optional sign followed by one or more digits
Atoi(value) ==
    LET signed == value # << >> /\ value[1] \in {"+", "-"}
        digits == IF signed THEN Tail(value) ELSE value
        RECURSIVE Val(_, _)
        Val(s, acc) == IF s = << >> THEN acc ELSE Val(Tail(s), 10 * acc + DigitVal(Head(s)))
    IN  IF digits = << >> \/ ~AllDigits(digits, 1, Len(digits)) THEN [ok |-> FALSE, n |-> 0]
        ELSE [ok |-> TRUE,
              n |-> IF signed /\ value[1] = "-" THEN 0 - Val(digits, 0) ELSE Val(digits, 0)]

\* if fromCity == "" || toCity == "": a required city is missing
MissingCityBoth(from, to) == from = "" /\ to = ""
MissingCity(from, to) == from = "" \/ to = ""

\* the handler answers at once with a status, or calls SearchAllPlatforms
Reject(status) == [call |-> FALSE, status |-> status, req |-> NoRequest]
Search(req)    == [call |-> TRUE, status |-> 0, req |-> req]

\* searchHandler up to its call of platformManager.SearchAllPlatforms
searchHandler(in) ==
    IF in.method = "OPTIONS" THEN Reject(200)
    ELSE IF in.method # "POST" THEN Reject(405)
    ELSE LET dec == Decode(in.body) IN
         IF ~dec.ok THEN Reject(400)
         ELSE IF MissingCity(dec.req.FromCity, dec.req.ToCity) THEN Reject(400)
         ELSE Search([dec.req EXCEPT
                        !.Passengers = IF @ = 0 THEN 1 ELSE @,
                        !.Date = IF IsZero(@) THEN Tomorrow ELSE @])

\* routesHandler up to its call of platformManager.SearchAllPlatforms
routesHandler(in) ==
    LET q == in.query IN
    IF MissingCity(q.from, q.to) THEN Reject(400)
    ELSE LET date == IF q.date # << >> THEN ParseDate(q.date) ELSE DateFailed
             pass == Atoi(q.passengers)
         IN  IF q.date # << >> /\ ~date.ok THEN Reject(400)
             ELSE Search([FromCity |-> q.from, ToCity |-> q.to,
                          Date |-> IF q.date # << >>
                                   THEN [instant |-> DaysFromCivil(date.year, date.month, date.day)
                                                     * DayMinutes,
                                         loc |-> "UTC"]
                                   ELSE Tomorrow,
                          Passengers |-> IF q.passengers # << >> /\ pass.ok /\ ~(pass.n < 1)
                                         THEN pass.n ELSE 1])

\* ---- the requests ---------------------------------------------------------

Methods == {"OPTIONS", "GET", "POST"}

\* the "date" member of a POST body; << >> stands for an absent member
BodyDates == { << >>, <<"2", "0", "2", "5", "-", "0", "8", "-", "2", "1", "T", "0", "6", ":", "0", "0", ":", "0", "0", "Z">>, <<"0", "0", "0", "1", "-", "0", "1", "-", "0", "1", "T", "0", "0", ":", "0", "0", ":", "0", "0", "Z">>, <<"2", "1", "-", "0", "8", "-", "2", "0", "2", "5">> }

\* the "passengers" member of a POST body; 0 also stands for an absent member
BodyPassengers == { 0 - 3, 0, 1, 2 }

\* the date and passengers query parameters; << >> is an absent parameter
QueryDates == { << >>, <<"2", "0", "2", "5", "-", "0", "8", "-", "2", "1">>, <<"0", "0", "0", "1", "-", "0", "1", "-", "0", "1">>, <<"2", "1", "-", "0", "8", "-", "2", "0", "2", "5">>, <<"2", "0", "2", "5", "-", "0", "2", "-", "3", "0">> }
QueryPassengers == { << >>, <<"2">>, <<"0">>, <<"-", "3">>, <<"x", "2">> }

NoBodyGiven  == [syntax |-> FALSE, from_city |-> "", to_city |-> "", date |-> << >>,
                 passengers |-> 0]
NoQueryGiven == [from |-> "", to |-> "", date |-> << >>, passengers |-> << >>]

WebInputs ==
    { [handler |-> "searchHandler", method |-> m, query |-> NoQueryGiven,
       body |-> [syntax |-> s, from_city |-> f, to_city |-> t, date |-> d, passengers |-> p]] :
        m \in Methods, s \in BOOLEAN, f \in {"", "Mumbai"}, t \in {"", "Pune"},
        d \in BodyDates, p \in BodyPassengers }
    \cup
    { [handler |-> "routesHandler", method |-> m, body |-> NoBodyGiven,
       query |-> [from |-> f, to |-> t, date |-> d, passengers |-> p]] :
        m \in Methods, f \in {"", "Mumbai"}, t \in {"", "Pune"},
        d \in QueryDates, p \in QueryPassengers }

\* what SearchAllPlatforms hands back to the handler: at most MaxOffers routes
ReturnedRoutes ==
    UNION { { [ x \in 1..n |-> [id |-> x, amount |-> f[x]] ] : f \in [1..n -> 1..MaxAmount] }
            : n \in 0..MaxOffers }

\* the response: HTTP status, the Status / Routes / TotalFound members of the
\* JSON body; "returned" keeps what SearchAllPlatforms returned
NoResponse == [status |-> 0, Status |-> "", routes |-> << >>, TotalFound |-> 0,
               returned |-> << >>]

\* sendJSON(w, status, Response{Status: "error", ...}); the answer to OPTIONS
\* is w.WriteHeader(http.StatusOK) without a body
ErrorResponse(status) ==
    [NoResponse EXCEPT !.status = status, !.Status = IF status = 200 THEN "" ELSE "error"]

\* SearchResponse{Status: "success", Routes: routes, TotalFound: len(routes)}
\* sent with http.StatusOK
SuccessResponse(sorted, rs) ==
    [status |-> 200, Status |-> "success", routes |-> sorted, TotalFound |-> Len(sorted),
     returned |-> rs]

WebInit ==
    /\ webIn \in WebInputs
    /\ webReq = NoRequest
    /\ webOut = NoResponse
    /\ webPc = "ready"

\* the handler from its entry to its first response or to the call of
\* SearchAllPlatforms
Serve ==
    /\ webPc = "ready"
    /\ LET h == IF webIn.handler = "searchHandler" THEN searchHandler(webIn)
                                                    ELSE routesHandler(webIn)
       IN  IF h.call
           THEN webReq' = h.req /\ webOut' = webOut /\ webPc' = "search"
           ELSE webReq' = webReq /\ webOut' = ErrorResponse(h.status)
                /\ webPc' = "rejected"
    /\ UNCHANGED <<webIn, aggVars, rateVars, rankVars, convVars, adVars, dualVars>>

\* routes, err := platformManager.SearchAllPlatforms(searchReq); 500 on an
\* error, else sort.Slice by price and 200
Respond ==
    /\ webPc = "search"
    /\ \E rs \in ReturnedRoutes, n \in 0..MaxN, anyFailed \in BOOLEAN :
         webOut' = IF ReturnErr(n, anyFailed) # "nil"
                   THEN ErrorResponse(500)
                   ELSE SuccessResponse(SortSlice(rs, toolchain), rs)
    /\ webPc' = "responded"
    /\ UNCHANGED <<webIn, webReq, aggVars, rateVars, rankVars, convVars, adVars, dualVars>>

InitHandler ==
    /\ AggIdle /\ RateIdle /\ ConvIdle /\ AdIdle /\ DualIdle
    /\ rankIn = << >> /\ rankOut = << >> /\ rankPc = "off" /\ toolchain \in Toolchains
    /\ WebInit

NextHandler == Serve \/ Respond

SpecHandler == InitHandler /\ [][NextHandler]_vars

\* the handler has called SearchAllPlatforms with webReq
Called == webPc \in {"search", "responded"}

----------------------------------------------------------------------------
(* The Gin variant: searchBusesHandler *)

\* createSampleBuses(): the three sample buses, in order
createSampleBuses == <<
    [ID |-> "bus_001", FromCity |-> "Mumbai", ToCity |-> "Pune", Price |-> 450],
    [ID |-> "bus_002", FromCity |-> "Mumbai", ToCity |-> "Pune", Price |-> 520],
    [ID |-> "bus_003", FromCity |-> "Mumbai", ToCity |-> "Pune", Price |-> 395] >>

NoGinRequest == [FromCity |-> "", ToCity |-> "", Date |-> << >>, Passengers |-> 0]

\* c.ShouldBindJSON(&req): the body must be JSON; then the binding tags:
\* "required" on FromCity, ToCity and Date (not the zero value) and "min=1" on
\* Passengers (an absent member is 0)
ShouldBindJSON(body) ==
    LET req == [FromCity |-> body.from_city, ToCity |-> body.to_city,
                Date |-> body.date, Passengers |-> body.passengers]
    IN  IF ~body.syntax THEN [err |-> "syntax", req |-> NoGinRequest]
        ELSE IF req.FromCity = "" \/ req.ToCity = "" \/ req.Date = << >>
             THEN [err |-> "required", req |-> req]
        ELSE IF req.Passengers < 1 THEN [err |-> "min", req |-> req]
        ELSE [err |-> "nil", req |-> req]

\* validateSearchRequest(req)
validateSearchRequest(req) ==
    IF req.FromCity = req.ToCity THEN "from_city and to_city cannot be the same"
    ELSE IF ~ParseDate(req.Date).ok THEN "invalid date format, use YYYY-MM-DD"
    ELSE "nil"

\* if bus.FromCity == req.FromCity && bus.ToCity == req.ToCity
RouteMatchesOrigin(bus, req) == bus.FromCity = req.FromCity
RouteMatches(bus, req) == bus.FromCity = req.FromCity /\ bus.ToCity = req.ToCity

\* for _, bus := range allBuses { if ... { matchingBuses = append(...) } }
RECURSIVE MatchingBuses(_, _, _)
MatchingBuses(allBuses, req, x) ==
    IF x > Len(allBuses) THEN << >>
    ELSE (IF RouteMatches(allBuses[x], req) THEN <<allBuses[x]>> ELSE << >>)
         \o MatchingBuses(allBuses, req, x + 1)

\* c.JSON(http.StatusBadRequest, gin.H{"error": ...})
GinError == [status |-> 400, buses |-> << >>, Total |-> 0]

\* c.JSON(http.StatusOK, SearchResponse{Buses: matchingBuses, Total: len(matchingBuses)})
GinResponse(matchingBuses) ==
    [status |-> 200, buses |-> matchingBuses, Total |-> Len(matchingBuses)]

\* the bodies posted to /api/search
GinCities     == {"", "Mumbai", "Pune", "Chennai"}
GinDates      == QueryDates \cup BodyDates
GinPassengers == BodyPassengers
GinInputs ==
    { [syntax |-> s, from_city |-> f, to_city |-> t, date |-> d, passengers |-> p] :
        s \in BOOLEAN, f \in GinCities, t \in GinCities, d \in GinDates, p \in GinPassengers }

GinInit ==
    /\ webIn \in GinInputs
    /\ webReq = NoGinRequest
    /\ webOut = [status |-> 0, buses |-> << >>, Total |-> 0]
    /\ webPc = "bind"

GinFrame == UNCHANGED <<webIn, aggVars, rateVars, rankVars, convVars, adVars, dualVars>>

\* searchBusesHandler, lines 149-157
GinBind ==
    /\ webPc = "bind"
    /\ LET b == ShouldBindJSON(webIn) IN
         /\ webReq' = b.req
         /\ IF b.err # "nil" THEN webOut' = GinError /\ webPc' = "rejected"
                             ELSE webOut' = webOut /\ webPc' = "validate"
    /\ GinFrame

\* searchBusesHandler, lines 160-165
GinValidate ==
    /\ webPc = "validate"
    /\ IF validateSearchRequest(webReq) # "nil"
       THEN webOut' = GinError /\ webPc' = "rejected"
       ELSE webOut' = webOut /\ webPc' = "filter"
    /\ UNCHANGED webReq
    /\ GinFrame

\* searchBusesHandler, lines 168-187
GinRespond ==
    /\ webPc = "filter"
    /\ webOut' = GinResponse(MatchingBuses(createSampleBuses, webReq, 1))
    /\ webPc' = "responded"
    /\ UNCHANGED webReq
    /\ GinFrame

InitGin == AggIdle /\ RateIdle /\ RankIdle /\ ConvIdle /\ AdIdle /\ DualIdle /\ GinInit

NextGin == GinBind \/ GinValidate \/ GinRespond

SpecGin == InitGin /\ [][NextGin]_vars

\* searchBusesHandler has written its response
GinAnswered == webPc \in {"rejected", "responded"}

\* the sample buses of the requested route, in sample order
SampleBusesFor(from, to) ==
    SelectSeq(createSampleBuses, LAMBDA bus : bus.FromCity = from /\ bus.ToCity = to)

\* C28 as stated: a well-formed body is answered 400 without buses exactly
\* when from_city equals to_city or the date is not a valid YYYY-MM-DD date,
\* and otherwise 200 with the sample buses of the requested route in sample
\* order and Total equal to their number.
C28_RejectedOnlyForCitiesOrDate ==
    (GinAnswered /\ webIn.syntax) =>
        IF webIn.from_city = webIn.to_city \/ ~ParseDate(webIn.date).ok
        THEN webOut.status = 400 /\ webOut.buses = << >>
        ELSE /\ webOut.status = 200
             /\ webOut.buses = SampleBusesFor(webIn.from_city, webIn.to_city)
             /\ webOut.Total = Len(webOut.buses)

\* the body fails the binding of ShouldBindJSON
BindingFails ==
    \/ ~webIn.syntax
    \/ webIn.from_city = "" \/ webIn.to_city = "" \/ webIn.date = << >>
    \/ webIn.passengers < 1

\* C28 amended: searchBusesHandler answers 400 without buses when the body
\* fails the binding (not JSON, an empty or absent from_city, to_city or
\* date, passengers below 1), when from_city equals to_city or when the date
\* is not a valid YYYY-MM-DD date; otherwise it answers 200 with exactly the
\* sample buses of the requested route, in sample order, and Total equal to
\* the number of buses returned.
C28_RejectedForBindingCitiesOrDate ==
    GinAnswered =>
        IF BindingFails \/ webIn.from_city = webIn.to_city \/ ~ParseDate(webIn.date).ok
        THEN webOut.status = 400 /\ webOut.buses = << >>
        ELSE /\ webOut.status = 200
             /\ webOut.buses = SampleBusesFor(webIn.from_city, webIn.to_city)
             /\ webOut.Total = Len(webOut.buses)

C28_Witness ==
    /\ webPc = "responded" /\ webOut.status = 200
    /\ webIn.from_city = "Mumbai" /\ webIn.to_city = "Pune"
    /\ webOut.Total = Len(createSampleBuses)
    /\ webOut.buses = createSampleBuses

----------------------------------------------------------------------------
(* Properties of the provider adapters *)

\* C11: every route an adapter returns (the three mocks, RealRedBusService,
\* RapidAPIBusService) departs no later than it arrives.
C11_DepartureNotAfterArrival ==
    Searched => \A x \in 1..Len(adOut.routes) :
                   NotAfter(adOut.routes[x].DepartureTime, adOut.routes[x].ArrivalTime)

\* the time fields of a provider record parse in the adapter's layout
TimesParse(kind, rec) ==
    IF kind = "RealRedBusService"
    THEN Parse1504(rec.departure).ok /\ Parse1504(rec.arrival).ok
    ELSE ParseRFC3339(rec.departure).ok /\ ParseRFC3339(rec.arrival).ok

\* a real adapter decoded a response of two records, one with time fields
\* that parse and one with time fields that do not
OneGoodOneBadRecord ==
    /\ Searched
    /\ adIn.kind \in RealKinds
    /\ adIn.transport = "ok"
    /\ ~UnmarshalFails(adIn.body)
    /\ Len(adIn.body.records) = 2
    /\ Cardinality({ x \in 1..2 : TimesParse(adIn.kind, adIn.body.records[x]) }) = 1

\* C12: a real adapter that decodes a response with one well-formed record and
\* one record with unparseable time fields returns exactly one route and a
\* nil error.
C12_BadRecordSkipped ==
    OneGoodOneBadRecord => (~adOut.err /\ Len(adOut.routes) = 1)

\* C13: a real adapter's SearchRoutes returns a non-nil error if and only if
\* its MakeRequest call failed or the top-level response envelope could not be
\* decoded; no problem of a single record makes it return an error.
C13_ErrorIffRequestOrEnvelope ==
    (Searched /\ adIn.kind \in RealKinds) =>
        (adOut.err <=> (adIn.transport # "ok" \/ ~adIn.body.syntax))

\* the sample location table has an entry for the city
InLocationTable(city) ==
    \E x \in 1..Len(GetSampleLocations) : GetSampleLocations[x].City = city

\* C16: a mock provider's SearchRoutes never returns an error; a requested
\* city without an entry in the sample location table yields a non-empty
\* result whose routes carry the zero-valued location for it.
C16_MockNeverFails ==
    (Searched /\ adIn.kind \in MockKinds) =>
        /\ ~adOut.err
        /\ (~InLocationTable(adIn.req.FromCity) \/ ~InLocationTable(adIn.req.ToCity))
              => adOut.routes # << >>
        /\ \A x \in 1..Len(adOut.routes) :
              /\ ~InLocationTable(adIn.req.FromCity) => adOut.routes[x].From = ZeroLocation
              /\ ~InLocationTable(adIn.req.ToCity)   => adOut.routes[x].To = ZeroLocation

C16_Witness ==
    /\ Searched
    /\ adIn.kind = "MakeMyTripService"
    /\ adIn.req.FromCity = "Chennai"
    /\ adIn.req.ToCity = "Pune"
    /\ ~adOut.err
    /\ Len(adOut.routes) = 1
    /\ adOut.routes[1].From = ZeroLocation
    /\ adOut.routes[1].To = [ID |-> "pune", City |-> "Pune"]

\* C17: in a real adapter, a provider record is discarded when the requested
\* origin or destination city has no match in the location table: no route
\* is returned for such a request.
C17_UnmatchedCityDiscarded ==
    (Searched /\ adIn.kind \in RealKinds
       /\ (~InLocationTable(adIn.req.FromCity) \/ ~InLocationTable(adIn.req.ToCity)))
    => adOut.routes = << >>

----------------------------------------------------------------------------
(* Properties of the HTTP handlers *)

\* the request lacks a city or carries a date that is not in the handler's
\* format (RFC 3339 in the POST body, YYYY-MM-DD in the query)
BadSearchBody ==
    /\ webIn.handler = "searchHandler" /\ webIn.method = "POST"
    /\ \/ webIn.body.from_city = "" \/ webIn.body.to_city = ""
       \/ webIn.body.date # << >> /\ ~ParseRFC3339(webIn.body.date).ok
BadRoutesQuery ==
    /\ webIn.handler = "routesHandler"
    /\ \/ webIn.query.from = "" \/ webIn.query.to = ""
       \/ webIn.query.date # << >> /\ ~ParseDate(webIn.query.date).ok
WrongMethod ==
    webIn.handler = "searchHandler" /\ webIn.method \notin {"POST", "OPTIONS"}

\* C21: a request to /search (POST) or /routes that lacks the origin or the
\* destination city or has an invalid date is answered 400, a /search request
\* that is neither POST nor OPTIONS 405, and in these cases SearchAllPlatforms
\* is not called.
C21_BadRequestsRejected ==
    webPc # "ready" =>
        /\ (BadSearchBody \/ BadRoutesQuery) => (webPc = "rejected" /\ webOut.status = 400)
        /\ WrongMethod => (webPc = "rejected" /\ webOut.status = 405)

C21_Witness ==
    /\ webPc = "rejected" /\ webOut.status = 400 /\ webOut.routes = << >>
    /\ webIn.handler = "routesHandler"
    /\ webIn.query.from = "Mumbai" /\ webIn.query.to = ""
    /\ webReq = NoRequest

\* C27: the 500 response of searchHandler and routesHandler is unreachable:
\* once SearchAllPlatforms has been called, whatever the providers did, the
\* handler answers 200 with status "success", the returned routes in
\* ascending order of price and TotalFound equal to their number.
C27_AcceptedRequestAnswered200 ==
    /\ webOut.status # 500
    /\ webPc = "responded" =>
          /\ webOut.status = 200 /\ webOut.Status = "success"
          /\ \A x \in 1..(Len(webOut.routes) - 1) :
                 webOut.routes[x].amount <= webOut.routes[x + 1].amount
          /\ SeqToBag(webOut.routes) = SeqToBag(webOut.returned)
          /\ webOut.TotalFound = Len(webOut.returned)

C27_Witness ==
    /\ webPc = "responded" /\ webOut.status = 200
    /\ webIn.handler = "searchHandler"
    /\ Len(webOut.returned) = MaxOffers
    /\ webOut.returned[1].amount > webOut.returned[2].amount
    /\ webOut.routes # webOut.returned
    /\ webOut.TotalFound = MaxOffers

\* C20: every SearchRequest a handler passes to SearchAllPlatforms has a
\* positive passenger count and a non-zero travel date.
C20_RequestHasPassengersAndDate ==
    Called => (webReq.Passengers > 0 /\ ~IsZero(webReq.Date))

\* an omitted passenger count is passed as 1 and an omitted date as tomorrow
OmittedFieldsDefaulted ==
    Called =>
        /\ (webIn.handler = "searchHandler" /\ webIn.body.passengers = 0)
              => webReq.Passengers = 1
        /\ (webIn.handler = "searchHandler" /\ webIn.body.date = << >>)
              => webReq.Date = Tomorrow
        /\ (webIn.handler = "routesHandler" /\ webIn.query.passengers = << >>)
              => webReq.Passengers = 1
        /\ (webIn.handler = "routesHandler" /\ webIn.query.date = << >>)
              => webReq.Date = Tomorrow

----------------------------------------------------------------------------
(* Properties of the aggregation round *)

Returned   == cpc = "done"
Failed(p)    == outcome[p].ret /\ outcome[p].err
Succeeded(p) == outcome[p].ret /\ ~outcome[p].err
AllFailed  == \A p \in 1..N : Failed(p)

\* the offers of the providers whose SearchRoutes returned a nil error
SuccessfulOffers ==
    Flatten([ p \in 1..N |-> IF Succeeded(p) THEN outcome[p].routes ELSE << >> ])

OffersOf(p, rs) == SelectSeq(rs, LAMBDA r : r.platform = p)

\* C1: when a round with N >= 1 providers returns, the returned list is, as a
\* multiset, the concatenation of the offers of every provider whose
\* SearchRoutes returned a nil error, whichever providers failed and however
\* the goroutines' sends interleaved.
C1_SuccessfulOffersAllReturned ==
    (Returned /\ N >= 1) => SeqToBag(allRoutes) = SeqToBag(SuccessfulOffers)

\* C2: SearchAllPlatforms returns only after it has received one routes report
\* and one error report from each of the N goroutines (N + N in total); no
\* goroutine is still waiting to report and nothing is left in the channels.
C2_ReturnsAfterAllReports ==
    Returned =>
        /\ i = N
        /\ Len(received) = N
        /\ \A p \in 1..N :
             /\ Cardinality({ x \in 1..Len(received) : received[x].routesFrom = p }) = 1
             /\ Cardinality({ x \in 1..Len(received) : received[x].errFrom = p }) = 1
             /\ gpc[p] = "done"
        /\ routesChan = << >> /\ errorsChan = << >>

C2_Witness == Returned /\ N >= 2 /\ AllFailed

\* C3: for a non-empty provider set, SearchAllPlatforms returns a nil error
\* whichever providers failed, and an empty list when all of them failed.
C3_NilErrorDespiteFailures ==
    (Returned /\ N >= 1) =>
        /\ retErr = "nil"
        /\ (AllFailed => allRoutes = << >>)

C3_Witness == Returned /\ N >= 2 /\ AllFailed /\ retErr = "nil" /\ allRoutes = << >>

\* C4: a provider whose SearchRoutes returned an error contributes no offer to
\* the output and is named by exactly one warning (a provider that succeeded by
\* none); the round still runs its N iterations and returns a nil error.
C4_FailedProviderWarnedOnce ==
    Returned =>
        /\ \A p \in 1..N :
             /\ Failed(p) => /\ OffersOf(p, allRoutes) = << >>
                             /\ CopiesIn(p, warnings) = 1
             /\ Succeeded(p) => CopiesIn(p, warnings) = 0
        /\ Len(received) = N
        /\ retErr = "nil"

C4_Witness ==
    /\ Returned /\ N >= 2
    /\ \E p, q \in 1..N : /\ Failed(p) /\ CopiesIn(p, warnings) = 1
                          /\ Succeeded(q) /\ OffersOf(q, allRoutes) # << >>

\* C5: a round started with an empty provider set returns an error.
C5_EmptyProviderSetFails ==
    (Returned /\ N = 0) => retErr # "nil"

\* the channel a provider goroutine is about to send on
SendTarget(p) ==
    IF (gpc[p] = "send1") = outcome[p].err THEN errorsChan ELSE routesChan

\* C19: the result channels are sized to the provider count, so no provider
\* goroutine blocks when reporting: each channel holds at most N pending
\* items, and whenever a goroutine is at a send its channel has room.
C19_NoSendBlocks ==
    /\ Len(routesChan) <= N
    /\ Len(errorsChan) <= N
    /\ \A p \in 1..N : gpc[p] \in {"send1", "send2"} => Len(SendTarget(p)) < ChanCap

C19_Witness ==
    /\ N = MaxN
    /\ Len(routesChan) = N /\ Len(errorsChan) = N
    /\ \A p \in 1..N : gpc[p] = "done"
    /\ cpc = "recvRoutes" /\ i = 0

\* C22: in every iteration of the collection loop the routes received from
\* routesChan and the error received from errorsChan were sent by the same
\* provider goroutine.
C22_ReportsPairedByProvider ==
    \A x \in 1..Len(received) : received[x].routesFrom = received[x].errFrom

\* C23: the list SearchAllPlatforms builds never holds an offer that was not
\* returned in this round by a provider whose SearchRoutes returned a nil
\* error, and never holds an offer more often than the providers produced it.
C23_NoInventedOrDuplicatedOffers ==
    SeqToBag(allRoutes) \sqsubseteq SeqToBag(SuccessfulOffers)

C23_Witness ==
    /\ Returned /\ N = 2
    /\ Failed(1) /\ Succeeded(2)
    /\ Len(outcome[2].routes) = MaxOffers
    /\ allRoutes = outcome[2].routes

\* C24: when every SearchRoutes call returns and scheduling is fair,
\* SearchAllPlatforms returns for every provider count N >= 0, every mix of
\* successes and failures and every send order, and once it has returned no
\* goroutine of the round is left before or at a send.
C24_RoundTerminates ==
    <>[](Returned /\ \A p \in 1..N : gpc[p] = "done")

C24_Witness ==
    /\ Returned /\ N = MaxLiveN
    /\ Failed(1) /\ Succeeded(N)
    /\ \A p \in 1..N : gpc[p] = "done"
    /\ routesChan = << >> /\ errorsChan = << >>

\* the number of offers provider p returned
Emitted(p) == Len(outcome[p].routes)

RECURSIVE SumEmitted(_)
SumEmitted(n) == IF n = 0 THEN 0 ELSE Emitted(n) + SumEmitted(n - 1)

MockRound == manager = "PlatformManager" /\ platforms = NewPlatformManager

\* C14 (as stated): with the three mocks of NewPlatformManager every provider
\* emits between 2 and 4 offers, and the returned list has as many offers as
\* the providers emitted together, between 6 and 12.
C14_EachMockEmitsTwoToFour ==
    (MockRound /\ Returned) =>
        /\ \A p \in 1..N : Emitted(p) \in 2..4
        /\ Len(allRoutes) = SumEmitted(N)
        /\ Len(allRoutes) \in 6..12

\* C14 (amended): RedBusService and GoibiboService emit between 2 and 4
\* offers, MakeMyTripService between 1 and 4; the returned list has as many
\* offers as the providers emitted together, between 5 and 12.
C14_MockRoundLength ==
    (MockRound /\ Returned) =>
        /\ Emitted(1) \in 2..4 /\ Emitted(2) \in 1..4 /\ Emitted(3) \in 2..4
        /\ Len(allRoutes) = SumEmitted(N)
        /\ Len(allRoutes) \in 5..12

C14_Witness ==
    /\ MockRound /\ Returned
    /\ Emitted(1) = 4 /\ Emitted(2) = 1 /\ Emitted(3) = 3
    /\ Len(allRoutes) = 8

\* C15: every offer a round returns carries the platform name of the provider
\* that produced it, a provider registered in this aggregator, as its
\* Price.Platform, and INR as its currency.
C15_OffersStampedWithProducer ==
    Returned =>
        \A x \in 1..Len(allRoutes) :
            /\ allRoutes[x].platform \in 1..N
            /\ allRoutes[x].route.Platform = GetPlatformName(platforms[allRoutes[x].platform])
            /\ allRoutes[x].route.Currency = "INR"

C15_Witness ==
    /\ Returned
    /\ manager = "RealPlatformManager"
    /\ N = 3
    /\ \E x, y, z \in 1..Len(allRoutes) :
          /\ platforms[allRoutes[x].platform] = "RedBusService"
          /\ allRoutes[x].route.Platform = "RedBus"
          /\ platforms[allRoutes[y].platform] = "RealRedBusService"
          /\ allRoutes[y].route.Platform = "RedBus"
          /\ platforms[allRoutes[z].platform] = "RapidAPIBusService"
          /\ allRoutes[z].route.Platform = "Transport API"

====
